---- MODULE Spec2Model ----
(***************************************************************************)
(* Model of @skapxd/result: the Result discriminated union                 *)
(* (src/src/result/index.ts) and the trySafe wrapper                       *)
(* (src/src/try-safe/index.ts, and its earlier variant that normalises the *)
(* error, src/unnamed/part_000), together with the part of the host        *)
(* runtime they rely on: promise settlement and the microtask queue.       *)
(***************************************************************************)
EXTENDS Integers, Sequences, FiniteSets, TLC

VARIABLES
    variant,      \* which trySafe implementation is deployed: "raw" | "normalize"
    fn,           \* behaviour of the callable handed to trySafe
    pc,           \* "not-started" | "pending" | "settled" | "raised"
    invocations,  \* number of trySafe invocations started
    calls,        \* number of times the callable was invoked
    ret,          \* what the current trySafe invocation returned
    raised,       \* what the current trySafe invocation threw (NoValue if nothing)
    promises,     \* state of the source promise and of the .then / .catch promises
    jobs,         \* microtask queue: promise reaction jobs, in registration order
    payloads,     \* error payload of the latest failure Outcome of each path
    held,         \* the Outcome a consumer holds and inspects
    origin,       \* that Outcome as it was when the consumer obtained it
    madeBy,       \* what produced it: "Result.ok" | "Result.err" | "trySafe"
    first,        \* first answer of each inspection of held
    last          \* latest inspection of held and its answer

vars == <<variant, fn, pc, invocations, calls, ret, raised, promises, jobs,
          payloads, held, origin, madeBy, first, last>>

trySafeVars == <<variant, fn, pc, invocations, calls, ret, raised, promises, jobs,
                 payloads>>
consumerVars == <<held, origin, madeBy, first, last>>

(***************************************************************************)
(* Bounds.                                                                 *)
(***************************************************************************)
MaxInvocations == 2

(***************************************************************************)
(* JavaScript values.  A value is a record [kind, data]; a Result object   *)
(* is the record with the fields the object literal has.                   *)
(***************************************************************************)
Val(k, d) == [kind |-> k, data |-> d]

NoValue == Val("none", "")
Undefined == Val("undefined", "")
Null == Val("null", "")
Zero == Val("number", "0")
Num42 == Val("number", "42")
StrErr == Val("string", "string error")
ErrBoom == Val("Error", "boom")
PlainObj == Val("object", "code404")
BareObj == Val("nullproto", "reason")
Thenable == Val("thenable", "then")
TypeErr == Val("Error", "Cannot convert object to primitive value")

\* src/src/result/index.ts:72
ResultOk(value) == [ok |-> TRUE, value |-> value]

\* src/src/result/index.ts:84
ResultErr(error) == [ok |-> FALSE, error |-> error]

\* values a callable can return, throw, or a promise can be rejected with
Values == {Undefined, Null, Zero, StrErr, ErrBoom, PlainObj, BareObj,
           ResultErr(StrErr), Thenable}

\* values a promise can be fulfilled with (resolution unwraps thenables)
Settled == Values \ {Thenable}

Defaults == {Undefined, Num42}

IsOutcome(v) == "ok" \in DOMAIN v

Kind(v) == IF IsOutcome(v) THEN "object" ELSE v.kind

Bool(b) == Val("boolean", IF b THEN "true" ELSE "false")

(***************************************************************************)
(* Result: src/src/result/index.ts                                         *)
(***************************************************************************)
\* JavaScript truthiness
Truthy(v) ==
    /\ Kind(v) \notin {"undefined", "null"}
    /\ v \notin {Zero, Val("string", ""), Val("boolean", "false")}

\* faulty variant: tests the payload instead of the discriminant
isOkByPayload(result) == "value" \in DOMAIN result /\ Truthy(result.value)

\* src/src/result/index.ts:92
isOk(result) == result.ok

\* src/src/result/index.ts:100
isErr(result) == ~result.ok

\* faulty variant: `result.value || defaultValue`
unwrapOrFalsy(result, defaultValue) ==
    IF result.ok /\ Truthy(result.value) THEN result.value ELSE defaultValue

\* src/src/result/index.ts:114-115
unwrapOr(result, defaultValue) ==
    IF result.ok THEN result.value ELSE defaultValue

(***************************************************************************)
(* The callable handed to trySafe.  act says how its invocation ends:      *)
(* "return" a non-promise value, "throw" a value, or return a native       *)
(* Promise that will "fulfil" or "reject"; early says that promise is      *)
(* already settled when it is returned (an async function that has already *)
(* thrown, Promise.reject(x), Promise.resolve(x)).                         *)
(***************************************************************************)
Callables ==
    [act : {"return", "throw"}, v : Values, early : {FALSE}]
        \cup [act : {"fulfil"}, v : Settled, early : BOOLEAN]
        \cup [act : {"reject"}, v : Values, early : BOOLEAN]

Completion(t, v) == [type |-> t, v |-> v]

SourcePromise == Val("Promise", "source")
CatchPromise == Val("Promise", "catch")

\* `fn()`: the completion of invoking the callable
FnResult(f) ==
    CASE f.act = "return" -> Completion("return", f.v)
      [] f.act = "throw" -> Completion("throw", f.v)
      [] OTHER -> Completion("return", SourcePromise)

\* faulty variant: the callable is invoked again after it threw
FnCallsRetry(f) == IF f.act = "throw" THEN 2 ELSE 1

\* number of times one trySafe invocation invokes the callable: the single
\* call site `const result = fn()`
FnCalls(f) == 1

\* faulty variant: the promise branch is never taken
InstanceOfPromiseNever(x) == FALSE

\* `x instanceof Promise`
InstanceOfPromise(x) == Kind(x) = "Promise"

\* `e instanceof Error`
InstanceOfError(e) == Kind(e) = "Error"

\* String(e) throws a TypeError for an object that cannot be converted to a
\* primitive (no toString / valueOf, e.g. Object.create(null))
StringThrows(e) == Kind(e) = "nullproto"

\* String(e) where it returns
StringOf(e) ==
    CASE Kind(e) = "undefined" -> "undefined"
      [] Kind(e) = "null" -> "null"
      [] Kind(e) \in {"number", "string", "boolean"} -> e.data
      [] OTHER -> "[object Object]"

\* faulty variant: the raw implementation wraps like the normalising one
ErrorPayloadWrapped(impl, e) ==
    IF InstanceOfError(e) THEN Completion("return", e)
    ELSE IF StringThrows(e) THEN Completion("throw", TypeErr)
    ELSE Completion("return", Val("Error", StringOf(e)))

\* the `error` field of the failure object literal, as a completion:
\*   "raw"        error                                    (index.ts:52, 60)
\*   "normalize"  e instanceof Error ? e : new Error(String(e))  (part_000:37, 44)
ErrorPayload(impl, e) ==
    IF impl = "raw" THEN Completion("return", e)
    ELSE IF InstanceOfError(e) THEN Completion("return", e)
    ELSE IF StringThrows(e) THEN Completion("throw", TypeErr)
    ELSE Completion("return", Val("Error", StringOf(e)))

\* faulty variant: a returned Outcome is passed on instead of being wrapped
SuccessLiteralFlattened(value) ==
    IF IsOutcome(value) THEN value ELSE [ok |-> TRUE, value |-> value]

\* the object literal of the success paths: { ok: true, value }
SuccessLiteral(value) == [ok |-> TRUE, value |-> value]

\* faulty variant: the failure object also carries a value field
FailureLiteralBothFields(error) ==
    [ok |-> FALSE, error |-> error, value |-> Undefined]

\* the object literal of the failure paths: { ok: false, error }
FailureLiteral(error) == [ok |-> FALSE, error |-> error]

\* the synchronous part of trySafe: the completion of the call
TrySafeSync(impl, f) ==
    LET result == FnResult(f) IN
    IF result.type = "throw"
    THEN \* catch (error) { return { ok: false, error } }
         LET p == ErrorPayload(impl, result.v) IN
         IF p.type = "throw" THEN Completion("throw", p.v)
         ELSE Completion("return", FailureLiteral(p.v))
    ELSE IF InstanceOfPromise(result.v)
         THEN \* return result.then(...).catch(...)
              Completion("return", CatchPromise)
         ELSE Completion("return", SuccessLiteral(result.v))

(***************************************************************************)
(* Promises: [state, value], state "none" (not created), "pending",        *)
(* "fulfilled" or "rejected".                                              *)
(***************************************************************************)
Promise(s, v) == [state |-> s, value |-> v]
NoPromise == Promise("none", NoValue)
Pending == Promise("pending", NoValue)

NoPromises == [source |-> NoPromise, then |-> NoPromise, catch |-> NoPromise]

NoPayloads == [sync |-> NoValue, async |-> NoValue]

\* the settled state of the promise the callable returned
SourceOutcome(f) ==
    IF f.act = "fulfil" THEN Promise("fulfilled", f.v) ELSE Promise("rejected", f.v)

\* reaction of result.then(onFulfilled): no onRejected, so a rejection passes through
ThenReaction(src) ==
    IF src.state = "fulfilled"
    THEN Promise("fulfilled", SuccessLiteral(src.value))
    ELSE Promise("rejected", src.value)

\* faulty variant: no rejection handler, the rejection propagates
CatchReactionPropagates(impl, prev) == prev

\* faulty variant: the rejection handler keeps the raw reason whatever the
\* policy of the catch block
CatchReactionRaw(impl, prev) ==
    IF prev.state = "fulfilled"
    THEN Promise("fulfilled", prev.value)
    ELSE Promise("fulfilled", [ok |-> FALSE, error |-> prev.value])

\* reaction of .catch(onRejected): a fulfilment passes through
CatchReaction(impl, prev) ==
    IF prev.state = "fulfilled"
    THEN Promise("fulfilled", prev.value)
    ELSE LET p == ErrorPayload(impl, prev.value) IN
         IF p.type = "throw" THEN Promise("rejected", p.v)
         ELSE Promise("fulfilled", FailureLiteral(p.v))

(***************************************************************************)
(* The consumer's inspections of the Outcome it holds.                     *)
(***************************************************************************)
Ops == {<<"isOk", NoValue>>, <<"isErr", NoValue>>}
           \cup {<<"unwrapOr", d>> : d \in Defaults}

NoFirst == [k \in Ops |-> NoValue]
NoLast == [op |-> <<"none", NoValue>>, result |-> NoValue, again |-> FALSE]

\* log an inspection: again says the same inspection had been made before
Record(k, result) ==
    /\ last' = [op |-> k, result |-> result, again |-> first[k] # NoValue]
    /\ first' = IF first[k] = NoValue THEN [first EXCEPT ![k] = result] ELSE first

Obtain(outcome, by) ==
    /\ held' = outcome
    /\ origin' = outcome
    /\ madeBy' = by
    /\ first' = NoFirst
    /\ last' = NoLast

(***************************************************************************)
(* Initial state: nothing invoked yet, no Outcome held.                    *)
(***************************************************************************)
Init ==
    /\ variant \in {"raw", "normalize"}
    /\ fn \in Callables
    /\ pc = "not-started"
    /\ invocations = 0
    /\ calls = 0
    /\ ret = NoValue
    /\ raised = NoValue
    /\ promises = NoPromises
    /\ jobs = <<>>
    /\ payloads = NoPayloads
    /\ held = NoValue
    /\ origin = NoValue
    /\ madeBy = "none"
    /\ first = NoFirst
    /\ last = NoLast

(***************************************************************************)
(* trySafe(fn): the whole synchronous call.                                *)
(***************************************************************************)
TrySafe ==
    /\ pc \in {"not-started", "settled", "raised"}
    /\ invocations < MaxInvocations
    /\ invocations' = invocations + 1
    /\ calls' = calls + FnCalls(fn)
    /\ LET c == TrySafeSync(variant, fn) IN
         /\ ret' = IF c.type = "return" THEN c.v ELSE NoValue
         /\ raised' = IF c.type = "throw" THEN c.v ELSE NoValue
         /\ payloads' = IF c.type = "return" /\ IsOutcome(c.v) /\ ~c.v.ok
                        THEN [payloads EXCEPT !.sync = c.v.error]
                        ELSE payloads
         /\ IF c.type = "return" /\ c.v = CatchPromise
            THEN /\ promises' = [source |-> IF fn.early THEN SourceOutcome(fn) ELSE Pending,
                                 then |-> Pending,
                                 catch |-> Pending]
                 /\ jobs' = IF fn.early THEN <<"then">> ELSE <<>>
                 /\ pc' = "pending"
            ELSE /\ promises' = NoPromises
                 /\ jobs' = <<>>
                 /\ pc' = IF c.type = "throw" THEN "raised" ELSE "settled"
    /\ UNCHANGED <<variant, fn, consumerVars>>

\* the promise the callable returned settles
SettleSource ==
    /\ pc = "pending"
    /\ promises.source.state = "pending"
    /\ promises' = [promises EXCEPT !.source = SourceOutcome(fn)]
    /\ jobs' = Append(jobs, "then")
    /\ UNCHANGED <<variant, fn, pc, invocations, calls, ret, raised, payloads,
                   consumerVars>>

\* microtask: the reaction registered by result.then(...)
RunThenJob ==
    /\ jobs # <<>>
    /\ Head(jobs) = "then"
    /\ promises' = [promises EXCEPT !.then = ThenReaction(promises.source)]
    /\ jobs' = Append(Tail(jobs), "catch")
    /\ UNCHANGED <<variant, fn, pc, invocations, calls, ret, raised, payloads,
                   consumerVars>>

\* microtask: the reaction registered by .catch(...)
RunCatchJob ==
    /\ jobs # <<>>
    /\ Head(jobs) = "catch"
    /\ LET r == CatchReaction(variant, promises.then) IN
         /\ promises' = [promises EXCEPT !.catch = r]
         /\ payloads' = IF r.state = "fulfilled" /\ ~r.value.ok
                        THEN [payloads EXCEPT !.async = r.value.error]
                        ELSE payloads
    /\ jobs' = Tail(jobs)
    /\ pc' = "settled"
    /\ UNCHANGED <<variant, fn, invocations, calls, ret, raised, consumerVars>>

(***************************************************************************)
(* The consumer obtains an Outcome and inspects it.  A behaviour follows    *)
(* one Outcome from the point where it is produced.                        *)
(***************************************************************************)
\* const r = Result.ok(v)
MakeOk ==
    /\ held = NoValue
    /\ \E v \in Values : Obtain(ResultOk(v), "Result.ok")
    /\ UNCHANGED trySafeVars

\* const r = Result.err(e)
MakeErr ==
    /\ held = NoValue
    /\ \E e \in Values : Obtain(ResultErr(e), "Result.err")
    /\ UNCHANGED trySafeVars

\* const r = trySafe(fn), synchronous path
TakeResult ==
    /\ held = NoValue
    /\ pc = "settled"
    /\ IsOutcome(ret)
    /\ Obtain(ret, "trySafe")
    /\ UNCHANGED trySafeVars

\* const r = await trySafe(fn)
AwaitResult ==
    /\ held = NoValue
    /\ ret = CatchPromise
    /\ promises.catch.state = "fulfilled"
    /\ Obtain(promises.catch.value, "trySafe")
    /\ UNCHANGED trySafeVars

\* Result.isOk(r)
IsOk ==
    /\ held # NoValue
    /\ Record(<<"isOk", NoValue>>, Bool(isOk(held)))
    /\ UNCHANGED <<held, origin, madeBy, trySafeVars>>

\* Result.isErr(r)
IsErr ==
    /\ held # NoValue
    /\ Record(<<"isErr", NoValue>>, Bool(isErr(held)))
    /\ UNCHANGED <<held, origin, madeBy, trySafeVars>>

\* faulty variant: the default is stored into the failure Outcome
UnwrapOrInPlace ==
    /\ held # NoValue
    /\ \E d \in Defaults :
         /\ Record(<<"unwrapOr", d>>, unwrapOr(held, d))
         /\ held' = IF held.ok THEN held ELSE [ok |-> TRUE, value |-> d]
    /\ UNCHANGED <<origin, madeBy, trySafeVars>>

\* Result.unwrapOr(r, d)
UnwrapOr ==
    /\ held # NoValue
    /\ \E d \in Defaults : Record(<<"unwrapOr", d>>, unwrapOr(held, d))
    /\ UNCHANGED <<held, origin, madeBy, trySafeVars>>

Next ==
    \/ TrySafe
    \/ SettleSource
    \/ RunThenJob
    \/ RunCatchJob
    \/ MakeOk
    \/ MakeErr
    \/ TakeResult
    \/ AwaitResult
    \/ IsOk
    \/ IsErr
    \/ UnwrapOr

Spec == Init /\ [][Next]_vars

\* the host runtime drains the microtask queue: a queued reaction job runs
FairSpec == Spec /\ WF_vars(RunThenJob) /\ WF_vars(RunCatchJob)

\* between two invocations the caller turns to the callable that raises the
\* same value the other way: () => { throw x }  <->  () => Promise.reject(x)
SwitchPath ==
    /\ pc \in {"settled", "raised"}
    /\ fn.act \in {"throw", "reject"}
    /\ \E e \in BOOLEAN :
         fn' = IF fn.act = "throw"
               THEN [act |-> "reject", v |-> fn.v, early |-> e]
               ELSE [act |-> "throw", v |-> fn.v, early |-> FALSE]
    /\ UNCHANGED <<variant, pc, invocations, calls, ret, raised, promises, jobs,
                   payloads, consumerVars>>

PolicyNext ==
    \/ TrySafe
    \/ SwitchPath
    \/ SettleSource
    \/ RunThenJob
    \/ RunCatchJob

\* trySafe invoked with callables that raise one value both ways
PolicySpec == Init /\ [][PolicyNext]_vars

TypeOK ==
    /\ pc \in {"not-started", "pending", "settled", "raised"}
    /\ invocations \in 0..MaxInvocations

(***************************************************************************)
(* Properties.                                                             *)
(***************************************************************************)
Invoked == invocations > 0

NoAsyncMachinery == promises = NoPromises /\ jobs = <<>>

C2_NeverRejects ==
    (variant = "raw" /\ fn.act = "reject") =>
        /\ promises.catch.state # "rejected"
        /\ promises.catch.state = "fulfilled" =>
               promises.catch.value = [ok |-> FALSE, error |-> fn.v]

C3_SyncReturnGivesSuccess ==
    (fn.act = "return" /\ fn.v # Thenable /\ Invoked) =>
        /\ raised = NoValue
        /\ pc = "settled"
        /\ ret = [ok |-> TRUE, value |-> fn.v]
        /\ NoAsyncMachinery

C3_Witness ==
    /\ fn = [act |-> "return", v |-> ResultErr(StrErr), early |-> FALSE]
    /\ invocations = 1
    /\ ret = [ok |-> TRUE, value |-> [ok |-> FALSE, error |-> StrErr]]

ReturnsPromise == fn.act \in {"fulfil", "reject"}

C4_NotSettledBeforeSource ==
    (ReturnsPromise /\ Invoked) =>
        /\ raised = NoValue
        /\ ret = CatchPromise
        /\ promises.source.state = "pending" => promises.catch.state = "pending"
        /\ (promises.source.state = "fulfilled" /\ promises.catch.state # "pending") =>
               promises.catch = Promise("fulfilled", [ok |-> TRUE, value |-> fn.v])

C4_ReturnsPending ==
    (ReturnsPromise /\ invocations' = invocations + 1) =>
        (ret' = CatchPromise /\ promises'.catch.state = "pending")

\* C4: when the callable returns a Promise, trySafe returns at once a promise
\* that is pending; that promise is never settled while the source promise is
\* pending; and once the source fulfils with v it fulfils with the success
\* Outcome {ok: true, value: v}.
C4_PendingThenSuccess ==
    /\ []C4_NotSettledBeforeSource
    /\ [][C4_ReturnsPending]_vars
    /\ (ReturnsPromise /\ promises.source.state = "fulfilled")
           ~> (promises.catch = Promise("fulfilled", [ok |-> TRUE, value |-> fn.v]))

C4_Witness ==
    /\ fn = [act |-> "fulfil", v |-> Null, early |-> FALSE]
    /\ ret = CatchPromise
    /\ promises.source = Promise("fulfilled", Null)
    /\ promises.catch = Promise("fulfilled", [ok |-> TRUE, value |-> Null])

\* C5: in src/src/try-safe/index.ts, when the callable throws, or returns a
\* promise that rejects with, a non-Error value s, the error payload of the
\* failure Outcome is an Error whose message is the string form of s.
C5_NonErrorIsWrapped ==
    (variant = "raw" /\ ~InstanceOfError(fn.v) /\ ~StringThrows(fn.v)) =>
        /\ (fn.act = "throw" /\ IsOutcome(ret)) =>
               /\ InstanceOfError(ret.error)
               /\ ret.error.data = StringOf(fn.v)
        /\ (fn.act = "reject" /\ promises.catch.state = "fulfilled") =>
               /\ InstanceOfError(promises.catch.value.error)
               /\ promises.catch.value.error.data = StringOf(fn.v)

\* C6: isOk and isErr are complementary on every Outcome and answer by the
\* discriminant alone: on ok(v) isOk is true and isErr false, on err(e) isErr
\* is true and isOk false, whatever the payload.
C6_GuardsComplementary ==
    /\ (madeBy = "Result.ok" /\ last.op[1] = "isOk") => last.result = Bool(TRUE)
    /\ (madeBy = "Result.ok" /\ last.op[1] = "isErr") => last.result = Bool(FALSE)
    /\ (madeBy = "Result.err" /\ last.op[1] = "isErr") => last.result = Bool(TRUE)
    /\ (madeBy = "Result.err" /\ last.op[1] = "isOk") => last.result = Bool(FALSE)
    /\ last.op[1] = "isOk" => last.result = Bool(origin.ok)
    /\ last.op[1] = "isErr" => last.result = Bool(~origin.ok)
    /\ (first[<<"isOk", NoValue>>] # NoValue /\ first[<<"isErr", NoValue>>] # NoValue) =>
           first[<<"isOk", NoValue>>] # first[<<"isErr", NoValue>>]

C6_Witness ==
    /\ madeBy = "Result.ok"
    /\ origin = [ok |-> TRUE, value |-> Undefined]
    /\ first[<<"isErr", NoValue>>] = Bool(FALSE)
    /\ last.op[1] = "isOk"
    /\ last.result = Bool(TRUE)

\* C7: unwrapOr(r, d) is the success payload when r is a success, even an
\* undefined, null or falsy one, and d when r is a failure.
C7_UnwrapOr ==
    last.op[1] = "unwrapOr" =>
        /\ madeBy = "Result.ok" => last.result = origin.value
        /\ madeBy = "Result.err" => last.result = last.op[2]
        /\ madeBy = "trySafe" =>
               last.result = IF origin.ok THEN origin.value ELSE last.op[2]

C7_Witness ==
    /\ madeBy = "Result.ok"
    /\ origin = [ok |-> TRUE, value |-> Zero]
    /\ last.op = <<"unwrapOr", Num42>>
    /\ last.result = Zero

\* C8: every invocation of trySafe invokes the callable exactly once, on
\* every path: the callable has been invoked as many times as trySafe.
C8_CallableInvokedOnce == calls = invocations

C8_Witness ==
    /\ fn.act = "throw"
    /\ invocations = MaxInvocations
    /\ calls = MaxInvocations

WellFormed(o) ==
    /\ "ok" \in DOMAIN o
    /\ o.ok \in BOOLEAN
    /\ o.ok <=> ("value" \in DOMAIN o /\ "error" \notin DOMAIN o)
    /\ ~o.ok <=> ("error" \in DOMAIN o /\ "value" \notin DOMAIN o)

\* the Outcomes produced so far
Produced ==
    (IF held # NoValue THEN {held} ELSE {})
        \cup (IF IsOutcome(ret) THEN {ret} ELSE {})
        \cup (IF promises.then.state = "fulfilled" THEN {promises.then.value} ELSE {})
        \cup (IF promises.catch.state = "fulfilled" THEN {promises.catch.value} ELSE {})

\* C9: every Outcome produced by Result.ok, Result.err or trySafe has exactly
\* one payload field, the one its discriminant announces.
C9_ExactlyOnePayload == \A o \in Produced : WellFormed(o)

C9_Witness ==
    /\ madeBy = "trySafe"
    /\ fn.act = "reject"
    /\ held.ok = FALSE
    /\ DOMAIN held = {"ok", "error"}

\* C10: isOk, isErr and unwrapOr leave the Outcome they inspect unchanged,
\* and each returns what it returned on its first call.
C10_InspectionIsIdempotent ==
    /\ held = origin
    /\ last.op[1] # "none" => last.result = first[last.op]

C10_Witness ==
    /\ madeBy = "Result.err"
    /\ last.op[1] = "unwrapOr"
    /\ last.again
    /\ first[<<"isOk", NoValue>>] # NoValue
    /\ first[<<"isErr", NoValue>>] # NoValue

\* an awaitable: a native Promise or any other object with a then method
Awaitable(x) == Kind(x) \in {"Promise", "thenable"}

\* C11: whenever the value the callable returns is awaitable (a native
\* Promise or any other thenable), trySafe returns a pending computation,
\* never a synchronous success Outcome wrapping the unsettled awaitable.
C11_AwaitableGoesAsync ==
    (Invoked /\ FnResult(fn).type = "return" /\ Awaitable(FnResult(fn).v)) =>
        /\ ret = CatchPromise
        /\ ~IsOutcome(ret)

\* C13: the normalising trySafe (src/unnamed/part_000) never raises: for every
\* value thrown by the callable it returns a failure Outcome without throwing,
\* and for every rejection reason the promise it returned fulfils with a
\* failure Outcome and never rejects.
C13_NormalizeNeverRaises ==
    (variant = "normalize" /\ Invoked) =>
        /\ raised = NoValue
        /\ pc # "raised"
        /\ promises.catch.state # "rejected"
        /\ fn.act = "throw" => (IsOutcome(ret) /\ ~ret.ok)
        /\ (fn.act = "reject" /\ promises.catch.state # "pending") =>
               (promises.catch.state = "fulfilled" /\ ~promises.catch.value.ok)

====
